---- MODULE Spec2Model ----
(***************************************************************************)
(* The token blacklist (internal/auth/token_blacklist.go), the JWT gate    *)
(* (internal/middleware/jwt_middleware.go) and the auth handlers           *)
(* (internal/api/auth.go) of the messaging system, as a state machine.     *)
(*                                                                         *)
(* Every goroutine is a process with a program counter.  A step of a       *)
(* process is one synchronisation point of the code: a call, an RLock, a   *)
(* Lock request, the grant of the write lock, the critical section with    *)
(* its Unlock, an RUnlock, a response.  Time is the wall clock in whole    *)
(* ticks; time.Now() reads the variable now.                               *)
(*                                                                         *)
(* The messaging and group handlers (internal/api, the second half of      *)
(* auth.go and groups.go) work on the tables groups, group_members and     *)
(* messages.  A step of such a handler is one SQL statement, which can     *)
(* fail; the statements of CreateGroupHandler's transaction take effect    *)
(* together at its commit.                                                 *)
(***************************************************************************)
EXTENDS Integers, FiniteSets, Sequences, TLC

\* ------------------------------------------------------------------ bounds
\* request goroutines running concurrently
NumProcs == 2
\* the clock runs from 0 to MaxTime
MaxTime == 2
\* logins recorded in the issuance log
MaxIssued == 2
\* users whose requests reach the messaging and group handlers
NumActors == 2
\* messages that are sent where the number of messages is bounded
MaxMessages == 2
\* groups that are created
MaxGroups == 1

\* ---------------------------------------------------------------- constants
\* auth.go:95, the lifetime of the token LoginHandler signs, in ticks (hours)
LoginTTL == 24
\* groups.go (unnamed/part_002:181), the member limit of a group
MaxMembers == 25
\* groups.go (unnamed/part_002:196), the admin limit of a group
MaxAdmins == 2
\* auth.go:376, LIMIT of the message queries
PageSize == 10

Procs   == 1..NumProcs
\* the goroutine started by NewTokenBlacklist (go tb.periodicCleanup())
Sweeper == NumProcs + 1
\* no goroutine: the value of wlock when no writer has announced itself
NoProc  == NumProcs + 2
Threads == Procs \cup {Sweeper}

\* the keys of the blacklist map: jti strings
Ids   == {"a", "b"}
Times == 0..MaxTime

VARIABLES
  now,        \* the wall clock, time.Now()
  secret,     \* os.Getenv("JWT_SECRET"), "" when unset
  blacklist,  \* tb.blacklist: a function from the ids present to their expiry
  readers,    \* goroutines holding tb.mutex for reading
  wlock,      \* the goroutine inside tb.mutex.Lock()/Unlock() (holding rw.w), or NoProc
  req,        \* per goroutine: the call it runs, its position and its locals
  issued,     \* the tokens LoginHandler has handed out, in order
  revokedUntil, \* history: per id, the latest expiry a completed Add was given (-1: none)
  global,     \* globalBlacklistOnce and globalBlacklist, with what construction has made
  groups,     \* table groups: a function from the ids of the rows to their creator_id
  group_members, \* table group_members: rows [group_id, member_id, is_admin]
  groups_id_seq, \* the sequence behind groups.id: the last id it handed out
  messages,   \* table messages: the rows in the order of their insertion
  handler     \* per goroutine: the messaging or group handler it runs, with its locals

\* the tables and the handlers that work on them
dbvars == <<groups, groups_id_seq, group_members, messages, handler>>

\* the state of token handling
authvars == <<now, secret, blacklist, readers, wlock, req, issued, revokedUntil, global>>

vars == <<now, secret, blacklist, readers, wlock, req, issued, revokedUntil, global, dbvars>>

\* --------------------------------------------------------------- tokens
\* A JWT as the gate sees it: the key its HS256 signature was made with, and
\* the claims exp, type, jti and user_id ("none" when the claim is missing).
\* nbf is the time from which the registered claims iat and nbf let the
\* token be used: the later of the two, 0 when the token carries neither.
NoTok ==
  [key |-> "-", exp |-> 0, nbf |-> 0, typ |-> "none", jti |-> "none", uid |-> "none"]

\* The tokens without iat and nbf, and the tokens not to be used before the
\* last instant of the clock.  A token whose signature does not verify or
\* whose exp has passed fails jwt.Parse whatever its iat and nbf, so the
\* latter are signed with the service's key and expire at that last instant.
Tokens ==
  [key : {"s", "x"}, exp : Times, nbf : {0}, typ : {"access", "refresh", "none"},
   jti : Ids \cup {"none"}, uid : {"u1", "none"}]
  \cup
  [key : {"s"}, exp : {MaxTime}, nbf : {MaxTime}, typ : {"access", "refresh", "none"},
   jti : Ids \cup {"none"}, uid : {"u1", "none"}]

\* what a handler has written to the client and to the gin context
NoResp == [status |-> 0, body |-> "", user |-> "none", next |-> FALSE, aborted |-> FALSE]

\* the Authorization header of a request: absent, not "Bearer <token>", or
\* "Bearer <token>" ("none" for a call that is no HTTP request)
Headers == {"missing", "malformed", "bearer"}

Idle == [op |-> "idle", pc |-> "idle", hdr |-> "none", tok |-> NoTok, id |-> "none",
         exp |-> 0, ret |-> "none", resp |-> NoResp]

\* a handler that has answered: the request it served and what it wrote
Done(op, hdr, tok, resp) ==
  [Idle EXCEPT !.op = op, !.pc = "done", !.hdr = hdr, !.tok = tok, !.resp = resp]

SweeperIdle == [Idle EXCEPT !.op = "cleanup", !.pc = "wait"]

\* a goroutine that is not inside a call
Free(p) == req[p].pc \in {"idle", "done"}

\* ------------------------------------------------------ the blacklist map
Has(m, id) == id \in DOMAIN m

\* a store that lengthens the lifetime of an entry already present
MapPutExtend(m, id, e) ==
  [x \in (DOMAIN m) \cup {id} |-> IF x = id THEN (IF Has(m, id) THEN m[id] + e ELSE e) ELSE m[x]]

\* tb.blacklist[token] = expiry
MapPut(m, id, e) == [x \in (DOMAIN m) \cup {id} |-> IF x = id THEN e ELSE m[x]]

\* delete(tb.blacklist, token)
MapDelete(m, id) == [x \in (DOMAIN m) \ {id} |-> m[x]]

\* time.Now().After(expiry)
After(t, e) == t > e

\* a sweep that also deletes the entries that expire at this instant
CleanupMapAtExpiry(m, t) == [x \in {y \in DOMAIN m : t < m[y]} |-> m[x]]

\* the loop of cleanup(): delete every entry the clock is after
CleanupMap(m, t) == [x \in {y \in DOMAIN m : ~After(t, m[y])} |-> m[x]]

\* -------------------------------------------------------- the database
\* SQL NULL in an integer column, and the id no row has (SERIAL ids start at 1)
Null == 0

\* a goroutine that runs no messaging or group handler
HIdle ==
  [op |-> "idle", pc |-> "idle", user |-> Null, group |-> Null, member |-> Null,
   admin |-> FALSE, receiver |-> Null, status |-> 0, body |-> "", rows |-> {}]

\* c.JSON(status, gin.H{...}); return: the handler has answered, its locals
\* are gone
HDone(h, status, body) ==
  [HIdle EXCEPT !.op = h.op, !.pc = "done", !.status = status, !.body = body]

\* a goroutine that can take a new request
HFree(p) == handler[p].pc \in {"idle", "done"}

\* the database before any group or message exists
NoDb ==
  /\ groups = <<>>
  /\ groups_id_seq = 0
  /\ group_members = {}
  /\ messages = <<>>
  /\ handler = [p \in Procs |-> HIdle]

\* ------------------------------------------- the global blacklist instance
\* TokenBlacklist values are numbered in the order NewTokenBlacklist makes
\* them; the nil pointer is numbered by Nil.
Nil == 0

\* globalBlacklistOnce (done flag, holder of its mutex m), globalBlacklist,
\* the number of TokenBlacklist values constructed, the number of
\* periodicCleanup goroutines started, what GetTokenBlacklist returned
\* to each caller (Nil: nothing yet, or nil), and whether Stop has turned
\* the cleanupTicker of the instance off
Unconstructed ==
  [done |-> FALSE, m |-> NoProc, instance |-> Nil, built |-> 0, sweepers |-> 0,
   got |-> [p \in Procs |-> Nil], stopped |-> FALSE]

\* after the one call main() makes before the router is set up
Constructed ==
  [Unconstructed EXCEPT !.done = TRUE, !.instance = 1, !.built = 1, !.sweepers = 1]

\* ---------------------------------------------------------------- Init
\* The state after main() has called GetTokenBlacklist(): the map is empty,
\* the mutex is free and the sweeper goroutine waits for its first tick.
Init ==
  /\ now = 0
  /\ secret = "s"
  /\ blacklist = <<>>
  /\ readers = {}
  /\ wlock = NoProc
  /\ req = [p \in Threads |-> IF p = Sweeper THEN SweeperIdle ELSE Idle]
  /\ issued = <<>>
  /\ revokedUntil = [id \in Ids |-> -1]
  /\ global = Constructed
  /\ NoDb

\* the wall clock advances
Tick ==
  /\ now < MaxTime
  /\ now' = now + 1
  /\ UNCHANGED <<secret, blacklist, readers, wlock, req, issued, revokedUntil, global, dbvars>>

\* -------------------------------------------------------- sync.RWMutex
\* tb.mutex.RLock(): enters unless a writer has announced itself
RLock(p) ==
  /\ req[p].pc = "rlock"
  /\ wlock = NoProc
  /\ readers' = readers \cup {p}
  /\ req' = [req EXCEPT ![p].pc = "read"]
  /\ UNCHANGED <<now, secret, blacklist, wlock, issued, revokedUntil, global, dbvars>>

\* tb.mutex.RUnlock(), the deferred call that runs last; the call returns
\* to its caller (a handler), or the goroutine is free again
RUnlock(p) ==
  /\ req[p].pc = "runlock"
  /\ readers' = readers \ {p}
  /\ req' = [req EXCEPT ![p] = IF req[p].op = "IsBlacklisted" THEN Idle
                                 ELSE [req[p] EXCEPT !.pc = "ret"]]
  /\ UNCHANGED <<now, secret, blacklist, wlock, issued, revokedUntil, global, dbvars>>

\* tb.mutex.Lock(), first half: take rw.w and announce the writer, which
\* blocks every later RLock
Lock(p) ==
  /\ req[p].pc \in {"lock", "evictlock"}
  /\ wlock = NoProc
  /\ wlock' = p
  /\ req' = [req EXCEPT ![p].pc = IF req[p].pc = "lock" THEN "lockwait" ELSE "evictwait"]
  /\ UNCHANGED <<now, secret, blacklist, readers, issued, revokedUntil, global, dbvars>>

\* the map after the critical section of the call p runs under the write lock:
\* the deferred delete of IsBlacklisted, the loop of cleanup, the store of Add
WriteBody(p) ==
  IF req[p].pc = "evictwait" THEN MapDelete(blacklist, req[p].id)
  ELSE IF req[p].op = "cleanup" THEN CleanupMap(blacklist, now)
  ELSE MapPut(blacklist, req[p].id, req[p].exp)

\* where p continues after tb.mutex.Unlock()
AfterUnlock(p) ==
  IF req[p].pc = "evictwait" THEN [req[p] EXCEPT !.pc = "runlock"]
  ELSE IF req[p].op = "cleanup" THEN SweeperIdle
  ELSE IF req[p].op = "Refresh" THEN [req[p] EXCEPT !.pc = "respond"]
  ELSE Idle

\* tb.mutex.Lock(), second half, with what follows it: Lock returns once
\* every reader has left; the critical section runs; tb.mutex.Unlock().
\* No other goroutine reads or writes the map in between.
LockedStep(p) ==
  /\ req[p].pc \in {"lockwait", "evictwait"}
  /\ wlock = p
  /\ readers = {}
  /\ blacklist' = WriteBody(p)
  /\ wlock' = NoProc
  /\ req' = [req EXCEPT ![p] = AfterUnlock(p)]
  /\ UNCHANGED <<now, secret, readers, issued, global, dbvars>>

Locked(p) == LockedStep(p) /\ UNCHANGED revokedUntil

\* the same step, with the history of completed Add calls kept
LockedRecorded(p) ==
  /\ LockedStep(p)
  /\ revokedUntil' =
       IF req[p].op = "Add" /\ req[p].exp > revokedUntil[req[p].id]
         THEN [revokedUntil EXCEPT ![req[p].id] = req[p].exp]
         ELSE revokedUntil

\* ------------------------------------------------------ TokenBlacklist
\* a goroutine calls tb.Add(id, e)
AddRequest(p, id, e) ==
  /\ Free(p)
  /\ req' = [req EXCEPT ![p] = [Idle EXCEPT !.op = "Add", !.pc = "lock", !.id = id, !.exp = e]]
  /\ UNCHANGED <<now, secret, blacklist, readers, wlock, issued, revokedUntil, global, dbvars>>

CallAdd(p) ==
  \E id \in Ids, e \in Times : AddRequest(p, id, e)

\* an id that is passed to IsBlacklisted only, and the ids Add is called with
\* where that id is kept out of Add
Fresh == CHOOSE id \in Ids : TRUE

CallAddKnown(p) ==
  \E id \in Ids \ {Fresh}, e \in Times : AddRequest(p, id, e)

\* a goroutine calls tb.IsBlacklisted(id)
CallIsBlacklisted(p) ==
  /\ Free(p)
  /\ \E id \in Ids :
       req' = [req EXCEPT ![p] = [Idle EXCEPT !.op = "IsBlacklisted", !.pc = "rlock", !.id = id]]
  /\ UNCHANGED <<now, secret, blacklist, readers, wlock, issued, revokedUntil, global, dbvars>>

\* a lookup that reports every id it does not find as revoked
LookupResultAbsent(m, id, t) == ~Has(m, id) \/ ~After(t, m[id])

\* the return value of IsBlacklisted, from the entry read under the read lock
LookupResult(m, id, t) == Has(m, id) /\ ~After(t, m[id])

\* whether IsBlacklisted registers the deferred eviction
LookupEvicts(m, id, t) == Has(m, id) /\ After(t, m[id])

\* IsBlacklisted lines 41-57: read the entry and the clock, fix the return
\* value.  The deferred eviction, registered last, runs before RUnlock.
Lookup(p) ==
  /\ req[p].pc = "read"
  /\ req' = [req EXCEPT ![p].ret = IF LookupResult(blacklist, req[p].id, now) THEN "true" ELSE "false",
                        ![p].pc  = IF LookupEvicts(blacklist, req[p].id, now) THEN "evictlock" ELSE "runlock"]
  /\ UNCHANGED <<now, secret, blacklist, readers, wlock, issued, revokedUntil, global, dbvars>>

\* a tick of cleanupTicker.C reaches the range loop of periodicCleanup; a
\* stopped ticker sends no more ticks
SweepTick ==
  /\ req[Sweeper].pc = "wait"
  /\ ~global.stopped
  /\ req' = [req EXCEPT ![Sweeper].pc = "lock"]
  /\ UNCHANGED <<now, secret, blacklist, readers, wlock, issued, revokedUntil, global, dbvars>>

\* Stop(): tb.cleanupTicker.Stop() and nothing else. The channel is not
\* closed and the periodicCleanup goroutine is neither signalled nor waited
\* for: it stays where it is, in the range loop or inside cleanup().
CallStop ==
  /\ global.instance # Nil
  /\ ~global.stopped
  /\ global' = [global EXCEPT !.stopped = TRUE]
  /\ UNCHANGED <<now, secret, blacklist, readers, wlock, req, issued, revokedUntil, dbvars>>

\* ------------------------------------------------- JWTAuthMiddleware
\* a rejection that writes the 401 and lets the chain run on with the
\* subject of the token set
RejectThrough(body) ==
  [status |-> 401, body |-> body, user |-> "u1", next |-> TRUE, aborted |-> FALSE]

\* c.JSON(http.StatusUnauthorized, gin.H{"error": body}); c.Abort()
Reject(body) ==
  [status |-> 401, body |-> body, user |-> "none", next |-> FALSE, aborted |-> TRUE]

\* c.Set("user_id", userId); c.Next()
Accept(uid) ==
  [status |-> 0, body |-> "", user |-> uid, next |-> TRUE, aborted |-> FALSE]

\* jwt.Parse with the key function of the gate returns an error: the secret
\* is unset, the signature does not verify under it, or MapClaims.Valid of
\* jwt-go v3 fails: the clock is past exp (now <= exp is accepted), or
\* before iat or nbf (now >= iat and now >= nbf are accepted)
ParseError(tok, t, sec) ==
  sec = "" \/ tok.key # sec \/ t > tok.exp \/ t < tok.nbf

\* a gate that does not look at the type claim
GatePassesAnyKind(hdr, tok, t, sec) ==
  /\ hdr = "bearer"
  /\ ~ParseError(tok, t, sec)
  /\ tok.jti # "none"

\* the checks of the gate that come before the registry is consulted
\* (lines 19-70): header, jwt.Parse, the type claim, the jti claim
GatePasses(hdr, tok, t, sec) ==
  /\ hdr = "bearer"
  /\ ~ParseError(tok, t, sec)
  /\ tok.typ = "access"
  /\ tok.jti # "none"

\* a gate that looks at the type claim before it verifies the token
GateRejectionKindFirst(hdr, tok, t, sec) ==
  IF hdr = "missing" THEN Reject("Authorization header is required")
  ELSE IF hdr = "malformed"
    THEN Reject("Authorization header must be in the format 'Bearer {token}'")
  ELSE IF tok.typ # "access" THEN Reject("Invalid token type")
  ELSE IF ParseError(tok, t, sec) THEN Reject("Invalid or expired token")
  ELSE Reject("Invalid token: missing jti claim")

\* the answer of the gate to a request that fails one of those checks, the
\* first failing check deciding
GateRejection(hdr, tok, t, sec) ==
  IF hdr = "missing" THEN Reject("Authorization header is required")
  ELSE IF hdr = "malformed"
    THEN Reject("Authorization header must be in the format 'Bearer {token}'")
  ELSE IF ParseError(tok, t, sec) THEN Reject("Invalid or expired token")
  ELSE IF tok.typ # "access" THEN Reject("Invalid token type")
  ELSE Reject("Invalid token: missing jti claim")

\* the answer lines 71-94 would give without the user_id test of lines 82-88
GateDecisionAnyUser(ret, tok) ==
  IF ret = "true" THEN Reject("Token has been revoked")
  ELSE Accept(tok.uid)

\* the answer of the gate once IsBlacklisted(jti) has returned (lines 71-94)
GateDecision(ret, tok) ==
  IF ret = "true" THEN Reject("Token has been revoked")
  ELSE IF tok.uid = "none" THEN Reject("Invalid token: missing user_id claim")
  ELSE Accept(tok.uid)

\* a protected request arrives with header hdr and token tok: the gate runs
\* its local checks and either answers or calls IsBlacklisted(jti)
GateRequest(p, hdr, tok) ==
  /\ Free(p)
  /\ req' = [req EXCEPT ![p] =
       IF GatePasses(hdr, tok, now, secret)
         THEN [Idle EXCEPT !.op = "Gate", !.pc = "rlock", !.hdr = hdr, !.tok = tok,
                           !.id = tok.jti]
         ELSE Done("Gate", hdr, tok, GateRejection(hdr, tok, now, secret))]
  /\ UNCHANGED <<now, secret, blacklist, readers, wlock, issued, revokedUntil, global, dbvars>>

\* the requests a client can send: no header, a malformed one, or a token
Presented(S) == {<<"missing", NoTok>>, <<"malformed", NoTok>>} \cup ({"bearer"} \X S)

\* the access tokens a client may hold: signed by the service, with id and
\* user, to be used at once
AccessTokens ==
  {t \in Tokens : /\ t.key = "s" /\ t.typ = "access" /\ t.jti # "none" /\ t.uid # "none"
                  /\ t.nbf = 0}

\* a protected request carrying any token of the universe
CallGate(p) ==
  \E r \in Presented(Tokens) : GateRequest(p, r[1], r[2])

\* the tokens LoginHandler has handed out
IssuedTokens == {issued[i] : i \in 1..Len(issued)}

\* a protected request carrying a token that LoginHandler returned
CallGateIssued(p) ==
  \E tok \in IssuedTokens : GateRequest(p, "bearer", tok)

\* IsBlacklisted has returned to the gate: revoked, missing user_id, or accept
GateFinish(p) ==
  /\ req[p].op = "Gate"
  /\ req[p].pc = "ret"
  /\ req' = [req EXCEPT ![p] =
       Done("Gate", req[p].hdr, req[p].tok, GateDecision(req[p].ret, req[p].tok))]
  /\ UNCHANGED <<now, secret, blacklist, readers, wlock, issued, revokedUntil, global, dbvars>>

\* ------------------------------------------------------- LoginHandler
\* what the request and the users table make of a login: a body that does
\* not bind, an unknown username, a database error, a wrong password, or
\* verified credentials
Credentials == {"badjson", "nouser", "dberr", "badpw", "ok"}

\* the one token LoginHandler signs (lines 91-101): claims user_id, username
\* and exp, no type and no jti, signed with whatever JWT_SECRET holds
LoginToken(t, sec) ==
  [key |-> sec, exp |-> t + LoginTTL, nbf |-> 0, typ |-> "none", jti |-> "none",
   uid |-> "u1"]

\* c.JSON(status, ...) of a handler that is not behind the gate
Reply(status, body) ==
  [status |-> status, body |-> body, user |-> "none", next |-> FALSE, aborted |-> FALSE]

\* the response of LoginHandler
LoginReply(cred) ==
  IF cred = "badjson" THEN Reply(400, "bind error")
  ELSE IF cred \in {"nouser", "badpw"} THEN Reply(401, "Invalid credentials")
  ELSE IF cred = "dberr" THEN Reply(500, "Failed to process login")
  ELSE Reply(200, "Login successful")

\* POST /api/login
CallLogin(p) ==
  /\ Free(p)
  /\ \E cred \in Credentials :
       /\ cred = "ok" => Len(issued) < MaxIssued
       /\ req' = [req EXCEPT ![p] =
            Done("Login", "none",
                 IF cred = "ok" THEN LoginToken(now, secret) ELSE NoTok,
                 LoginReply(cred))]
       /\ issued' = IF cred = "ok" THEN Append(issued, LoginToken(now, secret)) ELSE issued
  /\ UNCHANGED <<now, secret, blacklist, readers, wlock, revokedUntil, global, dbvars>>

\* ------------------------------------------------------ LogoutHandler
\* POST /api/logout: answers 200 whatever the request carries and touches
\* nothing (lines 112-116)
LogoutRequest(p, hdr, tok) ==
  /\ Free(p)
  /\ req' = [req EXCEPT ![p] = Done("Logout", hdr, tok, Reply(200, "Logout successful"))]
  /\ UNCHANGED <<now, secret, blacklist, readers, wlock, issued, revokedUntil, global, dbvars>>

CallLogout(p) ==
  \E tok \in AccessTokens : LogoutRequest(p, "bearer", tok)

CallLogoutIssued(p) ==
  \E tok \in IssuedTokens : LogoutRequest(p, "bearer", tok)

\* ------------------------------------------------ RefreshTokenHandler
\* POST /api/refresh is registered by SetupRoutes; the handler validates the
\* presented token as kind refresh, issues an access token and revokes the
\* presented token's id with the token's own expiry.

\* the local checks of validate(kind = refresh): signature, expiry, kind, id
RefreshPasses(tok, t, sec) ==
  /\ ~ParseError(tok, t, sec)
  /\ tok.typ = "refresh"
  /\ tok.jti # "none"

\* a rotation request presenting tok: rejected, or IsBlacklisted(jti) is called
RefreshRequest(p, tok) ==
  /\ Free(p)
  /\ req' = [req EXCEPT ![p] =
       IF RefreshPasses(tok, now, secret)
         THEN [Idle EXCEPT !.op = "Refresh", !.pc = "rlock", !.hdr = "bearer", !.tok = tok,
                           !.id = tok.jti, !.exp = tok.exp]
         ELSE Done("Refresh", "bearer", tok, Reply(401, "unauthorized"))]
  /\ UNCHANGED <<now, secret, blacklist, readers, wlock, issued, revokedUntil, global, dbvars>>

\* the refresh tokens a client may hold: signed by the service, with an id,
\* to be used at once
RefreshTokens ==
  {t \in Tokens : /\ t.key = "s" /\ t.typ = "refresh" /\ t.jti # "none" /\ t.uid # "none"
                  /\ t.nbf = 0}

CallRefresh(p) ==
  \E tok \in RefreshTokens : RefreshRequest(p, tok)

\* IsBlacklisted has returned to the rotation: revoked, or the new access
\* token is issued and Add(jti, exp) is called
RefreshIssue(p) ==
  /\ req[p].op = "Refresh"
  /\ req[p].pc = "ret"
  /\ req' = [req EXCEPT ![p] =
       IF req[p].ret = "true"
         THEN Done("Refresh", req[p].hdr, req[p].tok, Reply(401, "unauthorized"))
         ELSE [req[p] EXCEPT !.pc = "lock"]]
  /\ UNCHANGED <<now, secret, blacklist, readers, wlock, issued, revokedUntil, global, dbvars>>

\* Add has returned: the new access token is handed back
RefreshRespond(p) ==
  /\ req[p].op = "Refresh"
  /\ req[p].pc = "respond"
  /\ req' = [req EXCEPT ![p] =
       Done("Refresh", req[p].hdr, req[p].tok, Reply(200, "access token"))]
  /\ UNCHANGED <<now, secret, blacklist, readers, wlock, issued, revokedUntil, global, dbvars>>

\* -------------------------------------------------- GetTokenBlacklist
\* a goroutine calls GetTokenBlacklist(): globalBlacklistOnce.Do(...)
CallGet(p) ==
  /\ Free(p)
  /\ req' = [req EXCEPT ![p] = [Idle EXCEPT !.op = "Get", !.pc = "once"]]
  /\ UNCHANGED <<now, secret, blacklist, readers, wlock, issued, revokedUntil, global, dbvars>>

\* Once.Do: the fast path, if o.done.Load() == 0 { o.doSlow(f) }
OnceLoad(p) ==
  /\ req[p].pc = "once"
  /\ req' = [req EXCEPT ![p].pc = IF global.done THEN "getret" ELSE "oncelock"]
  /\ UNCHANGED <<now, secret, blacklist, readers, wlock, issued, revokedUntil, global, dbvars>>

\* Once.doSlow: o.m.Lock()
OnceLock(p) ==
  /\ req[p].pc = "oncelock"
  /\ global.m = NoProc
  /\ global' = [global EXCEPT !.m = p]
  /\ req' = [req EXCEPT ![p].pc = "oncedo"]
  /\ UNCHANGED <<now, secret, blacklist, readers, wlock, issued, revokedUntil, dbvars>>

\* a Once that runs f for every caller that reaches the slow path
OnceRunsAlways(g) == TRUE

\* Once.doSlow, under o.m: whether f is run
OnceRuns(g) == ~g.done

\* f: globalBlacklist = NewTokenBlacklist(1 * time.Hour), which makes a new
\* TokenBlacklist and starts its periodicCleanup goroutine
Construct(g) ==
  [g EXCEPT !.built = g.built + 1, !.instance = g.built + 1, !.sweepers = g.sweepers + 1]

\* Once.doSlow under o.m: if o.done.Load() == 0 { defer o.done.Store(1); f() },
\* then the deferred o.m.Unlock()
OnceDoSlow(p) ==
  /\ req[p].pc = "oncedo"
  /\ global.m = p
  /\ global' = [(IF OnceRuns(global) THEN Construct(global) ELSE global)
                  EXCEPT !.done = TRUE, !.m = NoProc]
  /\ req' = [req EXCEPT ![p].pc = "getret",
                        ![Sweeper] = IF OnceRuns(global) THEN SweeperIdle ELSE req[Sweeper]]
  /\ UNCHANGED <<now, secret, blacklist, readers, wlock, issued, revokedUntil, dbvars>>

\* return globalBlacklist
GetReturn(p) ==
  /\ req[p].pc = "getret"
  /\ global' = [global EXCEPT !.got[p] = global.instance]
  /\ req' = [req EXCEPT ![p] = Done("Get", "none", NoTok, NoResp)]
  /\ UNCHANGED <<now, secret, blacklist, readers, wlock, issued, revokedUntil, dbvars>>

\* ------------------------------------------------------------ the tables
\* The rows of table users: enough of them to fill a group and to have
\* users left over.  The table is not written by the handlers modelled here.
Users == 1..(MaxMembers + 2)

\* the users who send requests
Actors == 1..NumActors

\* a user id that has no row in users
NoUser == MaxMembers + 3

\* the group ids a request can name: the ones the sequence hands out, and
\* one it never reaches
GroupIds == 1..MaxGroups
NoGroup == MaxGroups + 1

\* a row of group_members
MemberRow(g, u, a) == [group_id |-> g, member_id |-> u, is_admin |-> a]

\* SELECT EXISTS(SELECT 1 FROM group_members WHERE group_id = g AND member_id = u)
IsMember(gm, g, u) == \E r \in gm : r.group_id = g /\ r.member_id = u

\* an admin check that lets every member through
IsAdminAnyMember(gm, g, u) == IsMember(gm, g, u)

\* SELECT is_admin FROM group_members WHERE group_id = g AND member_id = u,
\* for a requester whose row says true
IsAdmin(gm, g, u) == \E r \in gm : r.group_id = g /\ r.member_id = u /\ r.is_admin

\* SELECT COUNT(*) FROM group_members WHERE group_id = g
MemberCount(gm, g) == Cardinality({r \in gm : r.group_id = g})

\* SELECT COUNT(*) FROM group_members WHERE group_id = g AND is_admin = true
AdminCount(gm, g) == Cardinality({r \in gm : r.group_id = g /\ r.is_admin})

\* SELECT EXISTS(SELECT 1 FROM users WHERE id = u)
UserExists(u) == u \in Users

\* SELECT EXISTS(SELECT 1 FROM groups WHERE id = g)
GroupExists(gs, g) == g \in DOMAIN gs

\* p answers and returns
Respond(p, status, body) ==
  handler' = [handler EXCEPT ![p] = HDone(handler[p], status, body)]

\* p goes on to its next statement
Goto(p, pc) == handler' = [handler EXCEPT ![p].pc = pc]

\* -------------------------------------------------- CreateGroupHandler
\* POST /api/group/create behind the gate: ShouldBindJSON, then the transaction.
CallCreateGroup(p) ==
  /\ HFree(p)
  /\ groups_id_seq + Cardinality({q \in Procs : /\ handler[q].op = "CreateGroup"
                                                /\ handler[q].pc \in {"begin", "insertgroup"}})
       < MaxGroups
  /\ \E u \in Actors, bound \in BOOLEAN :
       IF ~bound
         THEN Respond(p, 400, "binding")
         ELSE handler' = [handler EXCEPT ![p] =
                [HIdle EXCEPT !.op = "CreateGroup", !.pc = "begin", !.user = u]]
  /\ UNCHANGED <<groups, groups_id_seq, group_members, messages, authvars>>

\* tx, err := db.GetDB().Begin(); defer tx.Rollback()
CreateBegin(p) ==
  /\ handler[p].op = "CreateGroup" /\ handler[p].pc = "begin"
  /\ \E err \in BOOLEAN :
       IF err THEN Respond(p, 500, "Failed to create group")
              ELSE Goto(p, "insertgroup")
  /\ UNCHANGED <<groups, groups_id_seq, group_members, messages, authvars>>

\* INSERT INTO groups ... RETURNING id, inside the transaction: the sequence
\* hands out the id at once, the row is not in the table before the commit.
\* The statement can fail before it runs (the sequence is untouched) or
\* after its row was computed (a value too long, a foreign key): nextval
\* is not rolled back, so the id is consumed though no group gets it.
CreateInsertGroup(p) ==
  /\ handler[p].op = "CreateGroup" /\ handler[p].pc = "insertgroup"
  /\ \E outcome \in {"ok", "failed", "failed after nextval"} :
       IF outcome = "ok"
         THEN /\ groups_id_seq' = groups_id_seq + 1
              /\ handler' = [handler EXCEPT ![p].pc = "insertcreator",
                                            ![p].group = groups_id_seq + 1]
         ELSE /\ Respond(p, 500, "Failed to create group")
              /\ groups_id_seq' = IF outcome = "failed" THEN groups_id_seq
                                                        ELSE groups_id_seq + 1
  /\ UNCHANGED <<groups, group_members, messages, authvars>>

\* INSERT INTO group_members (group_id, member_id, is_admin) VALUES (id,
\* creator, true), inside the transaction; on an error the deferred
\* Rollback discards the group row
CreateInsertCreator(p) ==
  /\ handler[p].op = "CreateGroup" /\ handler[p].pc = "insertcreator"
  /\ \E err \in BOOLEAN :
       IF err THEN Respond(p, 500, "Failed to create group")
              ELSE Goto(p, "commit")
  /\ UNCHANGED <<groups, groups_id_seq, group_members, messages, authvars>>

\* a commit that writes the group row and loses the membership row
CommittedGroupOnly(gm, g, u) == gm

\* the membership rows after the commit of the transaction of creator u
\* for group g
CommittedMembers(gm, g, u) == gm \cup {MemberRow(g, u, TRUE)}

\* tx.Commit(): both rows appear together, or the deferred Rollback
\* discards both
CreateCommit(p) ==
  /\ handler[p].op = "CreateGroup" /\ handler[p].pc = "commit"
  /\ \E err \in BOOLEAN :
       IF err
         THEN /\ Respond(p, 500, "Failed to create group")
              /\ UNCHANGED <<groups, group_members>>
         ELSE /\ groups' = [g \in DOMAIN groups \cup {handler[p].group} |->
                              IF g = handler[p].group THEN handler[p].user ELSE groups[g]]
              /\ group_members' =
                   CommittedMembers(group_members, handler[p].group, handler[p].user)
              /\ Respond(p, 201, "Group created successfully")
  /\ UNCHANGED <<groups_id_seq, messages, authvars>>

\* ---------------------------------------------- AddMemberToGroupHandler
\* POST /api/group/:group_id/add-member behind the gate by user u for group g
\* with body {member_id: m, is_admin: a}; bound: ShouldBindJSON accepts it
AddMemberRequest(p, u, g, m, a, bound) ==
  /\ HFree(p)
  /\ IF ~bound
       THEN Respond(p, 400, "binding")
       ELSE handler' = [handler EXCEPT ![p] =
              [HIdle EXCEPT !.op = "AddMember", !.pc = "checkadmin", !.user = u,
                            !.group = g, !.member = m, !.admin = a]]
  /\ UNCHANGED <<groups, groups_id_seq, group_members, messages, authvars>>

\* any user asks to add any user, or an id that is no user, to any group
CallAddMember(p) ==
  \E u \in Actors, g \in GroupIds \cup {NoGroup}, m \in Actors \cup {NoUser},
     a \in BOOLEAN, bound \in BOOLEAN :
    AddMemberRequest(p, u, g, m, a, bound)

\* SELECT is_admin ... WHERE group_id = $1 AND member_id = $2: no row, or
\* an error, answers 403, and so does a row that says false
AddCheckAdmin(p) ==
  /\ handler[p].op = "AddMember" /\ handler[p].pc = "checkadmin"
  /\ \E err \in BOOLEAN :
       IF err \/ ~IsMember(group_members, handler[p].group, handler[p].user)
         THEN Respond(p, 403, "You are not a member of this group or do not have permission")
         ELSE IF ~IsAdmin(group_members, handler[p].group, handler[p].user)
           THEN Respond(p, 403, "Only admins can add members to the group")
           ELSE Goto(p, "checkuser")
  /\ UNCHANGED <<groups, groups_id_seq, group_members, messages, authvars>>

\* SELECT EXISTS(SELECT 1 FROM users WHERE id = $1)
AddCheckUser(p) ==
  /\ handler[p].op = "AddMember" /\ handler[p].pc = "checkuser"
  /\ \E err \in BOOLEAN :
       IF err
         THEN Respond(p, 500, "Failed to verify user")
         ELSE IF ~UserExists(handler[p].member)
           THEN Respond(p, 400, "User does not exist")
           ELSE Goto(p, "checkmember")
  /\ UNCHANGED <<groups, groups_id_seq, group_members, messages, authvars>>

\* SELECT EXISTS(SELECT 1 FROM group_members WHERE group_id = $1 AND member_id = $2)
AddCheckMember(p) ==
  /\ handler[p].op = "AddMember" /\ handler[p].pc = "checkmember"
  /\ \E err \in BOOLEAN :
       IF err
         THEN Respond(p, 500, "Failed to check membership")
         ELSE IF IsMember(group_members, handler[p].group, handler[p].member)
           THEN Respond(p, 409, "User is already a member of this group")
           ELSE Goto(p, "checkcount")
  /\ UNCHANGED <<groups, groups_id_seq, group_members, messages, authvars>>

\* SELECT COUNT(*) FROM group_members WHERE group_id = $1; memberCount >= 25
AddCheckCount(p) ==
  /\ handler[p].op = "AddMember" /\ handler[p].pc = "checkcount"
  /\ \E err \in BOOLEAN :
       IF err
         THEN Respond(p, 500, "Failed to check group constraints")
         ELSE IF MemberCount(group_members, handler[p].group) >= MaxMembers
           THEN Respond(p, 400, "Group has reached maximum member limit of 25")
           ELSE Goto(p, IF handler[p].admin THEN "checkadmincount" ELSE "insert")
  /\ UNCHANGED <<groups, groups_id_seq, group_members, messages, authvars>>

\* if req.IsAdmin: SELECT COUNT(*) ... AND is_admin = true; adminCount >= 2
AddCheckAdminCount(p) ==
  /\ handler[p].op = "AddMember" /\ handler[p].pc = "checkadmincount"
  /\ \E err \in BOOLEAN :
       IF err
         THEN Respond(p, 500, "Failed to check admin constraints")
         ELSE IF AdminCount(group_members, handler[p].group) >= MaxAdmins
           THEN Respond(p, 400, "Group has reached maximum admin limit of 2")
           ELSE Goto(p, "insert")
  /\ UNCHANGED <<groups, groups_id_seq, group_members, messages, authvars>>

\* a table without the constraint takes any row
UniqueViolationNever(gm, g, m) == FALSE

\* UNIQUE (group_id, member_id): a row for the pair is already in the table
UniqueViolation(gm, g, m) == \E r \in gm : r.group_id = g /\ r.member_id = m

\* INSERT INTO group_members (group_id, member_id, is_admin) VALUES ($1, $2,
\* $3): UNIQUE (group_id, member_id) and the foreign keys make it fail
AddInsert(p) ==
  /\ handler[p].op = "AddMember" /\ handler[p].pc = "insert"
  /\ \E err \in BOOLEAN :
       IF \/ err
          \/ UniqueViolation(group_members, handler[p].group, handler[p].member)
          \/ ~GroupExists(groups, handler[p].group)
          \/ ~UserExists(handler[p].member)
         THEN /\ Respond(p, 500, "Failed to add member to group")
              /\ UNCHANGED group_members
         ELSE /\ group_members' = group_members \cup
                   {MemberRow(handler[p].group, handler[p].member, handler[p].admin)}
              /\ Respond(p, 201, "Member added to group successfully")
  /\ UNCHANGED <<groups, groups_id_seq, messages, authvars>>

\* ------------------------------------------------------ SendMessageHandler
\* A row of messages.  created_at, DEFAULT CURRENT_TIMESTAMP, is the
\* insertion time: inserts that follow one another get increasing values,
\* here the position of the row in the order of insertion.
MessageRow(s, r, g, t) ==
  [sender_id |-> s, receiver_id |-> r, group_id |-> g, created_at |-> t]

\* the rows of the table
Rows(ms) == {ms[i] : i \in 1..Len(ms)}

\* INSERT INTO messages (sender_id, receiver_id | group_id, content)
InsertMessage(ms, s, r, g) == Append(ms, MessageRow(s, r, g, Len(ms) + 1))

\* a validation that lets a request with both fields through
AtLeastOne(r, g) == r # Null \/ g # Null

\* not (both nil or both set): exactly one of receiver_id and group_id
ExactlyOne(r, g) == ~((r = Null /\ g = Null) \/ (r # Null /\ g # Null))

\* POST /api/message/send behind the gate by user u with body {receiver_id:
\* r, group_id: g, content} (Null: the field is absent); bound: ShouldBindJSON
\* accepts the body
SendRequest(p, u, r, g, bound) ==
  /\ HFree(p)
  /\ IF ~bound
       THEN Respond(p, 400, "binding")
       ELSE IF ~ExactlyOne(r, g)
         THEN Respond(p, 400, "Either receiver_id or group_id must be provided, but not both")
         ELSE handler' = [handler EXCEPT ![p] =
                [HIdle EXCEPT !.op = "SendMessage",
                              !.pc = IF r # Null THEN "dmreceiver" ELSE "gmgroup",
                              !.user = u, !.receiver = r, !.group = g]]
  /\ UNCHANGED <<groups, groups_id_seq, group_members, messages, authvars>>

\* any user sends to any user or none, and to any group or none
CallSend(p) ==
  /\ Len(messages) < MaxMessages
  /\ \E u \in Actors, r \in Actors \cup {NoUser, Null}, g \in GroupIds \cup {NoGroup, Null},
        bound \in BOOLEAN :
       SendRequest(p, u, r, g, bound)

\* a self-send check that never objects
SameUserNever(s, r) == FALSE

\* senderID == receiverID
SameUser(s, r) == s = r

\* sendDirectMessage: the receiver exists, and is not the sender
DmCheckReceiver(p) ==
  /\ handler[p].op = "SendMessage" /\ handler[p].pc = "dmreceiver"
  /\ \E err \in BOOLEAN :
       IF err
         THEN Respond(p, 500, "database error")
         ELSE IF ~UserExists(handler[p].receiver)
           THEN Respond(p, 500, "Receiver user does not exist")
           ELSE IF SameUser(handler[p].user, handler[p].receiver)
             THEN Respond(p, 500, "Cannot send message to yourself")
             ELSE Goto(p, "dminsert")
  /\ UNCHANGED <<groups, groups_id_seq, group_members, messages, authvars>>

\* INSERT INTO messages (sender_id, receiver_id, content); the foreign key
\* on receiver_id makes it fail for an id that is no user
DmInsert(p) ==
  /\ handler[p].op = "SendMessage" /\ handler[p].pc = "dminsert"
  /\ \E err \in BOOLEAN :
       IF err \/ ~UserExists(handler[p].receiver)
         THEN /\ Respond(p, 500, "database error")
              /\ UNCHANGED messages
         ELSE /\ messages' = InsertMessage(messages, handler[p].user, handler[p].receiver, Null)
              /\ Respond(p, 201, "Direct message sent successfully")
  /\ UNCHANGED <<groups, groups_id_seq, group_members, authvars>>

\* sendGroupMessage: SELECT EXISTS(SELECT 1 FROM groups WHERE id = $1)
GmCheckGroup(p) ==
  /\ handler[p].op = "SendMessage" /\ handler[p].pc = "gmgroup"
  /\ \E err \in BOOLEAN :
       IF err
         THEN Respond(p, 500, "database error")
         ELSE IF ~GroupExists(groups, handler[p].group)
           THEN Respond(p, 500, "Group does not exist")
           ELSE Goto(p, "gmmember")
  /\ UNCHANGED <<groups, groups_id_seq, group_members, messages, authvars>>

\* a membership check of the sender that never objects
SenderIsMemberAlways(gm, g, u) == TRUE

\* sendGroupMessage: SELECT EXISTS(SELECT 1 FROM group_members WHERE
\* group_id = $1 AND member_id = $2) for the sender
SenderIsMember(gm, g, u) == IsMember(gm, g, u)

\* sendGroupMessage: the sender is a member
GmCheckMember(p) ==
  /\ handler[p].op = "SendMessage" /\ handler[p].pc = "gmmember"
  /\ \E err \in BOOLEAN :
       IF err
         THEN Respond(p, 500, "database error")
         ELSE IF ~SenderIsMember(group_members, handler[p].group, handler[p].user)
           THEN Respond(p, 500, "You are not a member of this group")
           ELSE Goto(p, "gmcount")
  /\ UNCHANGED <<groups, groups_id_seq, group_members, messages, authvars>>

\* validateGroupConstraints: memberCount > 25
GmCheckCount(p) ==
  /\ handler[p].op = "SendMessage" /\ handler[p].pc = "gmcount"
  /\ \E err \in BOOLEAN :
       IF err
         THEN Respond(p, 500, "database error")
         ELSE IF MemberCount(group_members, handler[p].group) > MaxMembers
           THEN Respond(p, 500, "Group has exceeded maximum member limit of 25")
           ELSE Goto(p, "gmadmins")
  /\ UNCHANGED <<groups, groups_id_seq, group_members, messages, authvars>>

\* validateGroupConstraints: adminCount > 2
GmCheckAdmins(p) ==
  /\ handler[p].op = "SendMessage" /\ handler[p].pc = "gmadmins"
  /\ \E err \in BOOLEAN :
       IF err
         THEN Respond(p, 500, "database error")
         ELSE IF AdminCount(group_members, handler[p].group) > MaxAdmins
           THEN Respond(p, 500, "Group has exceeded maximum admin limit of 2")
           ELSE Goto(p, "gminsert")
  /\ UNCHANGED <<groups, groups_id_seq, group_members, messages, authvars>>

\* INSERT INTO messages (sender_id, group_id, content); the foreign key on
\* group_id makes it fail for an id that is no group
GmInsert(p) ==
  /\ handler[p].op = "SendMessage" /\ handler[p].pc = "gminsert"
  /\ \E err \in BOOLEAN :
       IF err \/ ~GroupExists(groups, handler[p].group)
         THEN /\ Respond(p, 500, "database error")
              /\ UNCHANGED messages
         ELSE /\ messages' = InsertMessage(messages, handler[p].user, Null, handler[p].group)
              /\ Respond(p, 201, "Group message sent successfully")
  /\ UNCHANGED <<groups, groups_id_seq, group_members, authvars>>

\* ------------------------------------------------------ the read handlers
\* p answers 200 with the rows of a query
RespondRows(p, rows) ==
  handler' = [handler EXCEPT ![p] = [HDone(handler[p], 200, "") EXCEPT !.rows = rows]]

\* LIMIT 10: the number of rows of a page of n rows that qualify
PageLen(n) == IF n < PageSize THEN n ELSE PageSize

\* ORDER BY created_at ASC LIMIT 10: ten of the rows, all of them when there
\* are fewer, with no row left out that is older than a row of the page.
\* Rows with equal created_at come in the order the database chooses, so
\* the query has several possible pages when a tie lies across the cut.
OldestPages(S) ==
  {P \in SUBSET S : /\ Cardinality(P) = PageLen(Cardinality(S))
                    /\ \A m \in P, n \in S \ P : m.created_at <= n.created_at}

\* ORDER BY created_at DESC LIMIT 10: ten of the rows, all of them when
\* there are fewer, with no row left out that is newer than a row of the
\* page; ties as in OldestPages
LatestPages(S) ==
  {P \in SUBSET S : /\ Cardinality(P) = PageLen(Cardinality(S))
                    /\ \A m \in P, n \in S \ P : m.created_at >= n.created_at}

\* WHERE m.group_id IS NULL AND ((m.sender_id = $1 AND m.receiver_id = $2)
\* OR (m.sender_id = $2 AND m.receiver_id = $1))
Conversation(ms, u, o) ==
  {m \in Rows(ms) : /\ m.group_id = Null
                    /\ \/ m.sender_id = u /\ m.receiver_id = o
                       \/ m.sender_id = o /\ m.receiver_id = u}

\* GET /api/conversation/:user_id behind the gate by user u for user o
CallConversation(p) ==
  /\ HFree(p)
  /\ \E u \in Actors, o \in Actors :
       handler' = [handler EXCEPT ![p] =
         [HIdle EXCEPT !.op = "GetConversation", !.pc = "query", !.user = u, !.receiver = o]]
  /\ UNCHANGED <<groups, groups_id_seq, group_members, messages, authvars>>

\* GetConversationHandler: the query, ORDER BY m.created_at ASC LIMIT 10
ConversationQuery(p) ==
  /\ handler[p].op = "GetConversation" /\ handler[p].pc = "query"
  /\ \E err \in BOOLEAN :
       IF err
         THEN Respond(p, 500, "Failed to retrieve conversation")
         ELSE \E page \in OldestPages(Conversation(messages, handler[p].user,
                                                     handler[p].receiver)) :
                RespondRows(p, page)
  /\ UNCHANGED <<groups, groups_id_seq, group_members, messages, authvars>>

\* a membership check of the reader that never objects
ReaderIsMemberAlways(gm, g, u) == TRUE

\* the read handlers: SELECT EXISTS(SELECT 1 FROM group_members WHERE
\* group_id = $1 AND member_id = $2) for the user of the request
ReaderIsMember(gm, g, u) == IsMember(gm, g, u)

\* GET /api/group/:group_id/messages (op "GetGroupMessages") and GET
\* /api/group/:group_id/members (op "GetGroupMembers") behind the gate by
\* user u for group g
CallGroupRead(p) ==
  /\ HFree(p)
  /\ \E u \in Actors, g \in GroupIds \cup {NoGroup},
        op \in {"GetGroupMessages", "GetGroupMembers"} :
       handler' = [handler EXCEPT ![p] =
         [HIdle EXCEPT !.op = op, !.pc = "checkmember", !.user = u, !.group = g]]
  /\ UNCHANGED <<groups, groups_id_seq, group_members, messages, authvars>>

\* both handlers: the user is a member of the group, or 403
GroupReadCheck(p) ==
  /\ handler[p].op \in {"GetGroupMessages", "GetGroupMembers"}
  /\ handler[p].pc = "checkmember"
  /\ \E err \in BOOLEAN :
       IF err
         THEN Respond(p, 500, "Failed to verify group membership")
         ELSE IF ~ReaderIsMember(group_members, handler[p].group, handler[p].user)
           THEN Respond(p, 403, "You are not a member of this group")
           ELSE Goto(p, "query")
  /\ UNCHANGED <<groups, groups_id_seq, group_members, messages, authvars>>

\* GetGroupMessagesHandler: WHERE m.group_id = $1 ORDER BY m.created_at DESC
\* LIMIT 10
GroupMessagesQuery(p) ==
  /\ handler[p].op = "GetGroupMessages" /\ handler[p].pc = "query"
  /\ \E err \in BOOLEAN :
       IF err
         THEN Respond(p, 500, "Failed to retrieve group messages")
         ELSE \E page \in LatestPages({m \in Rows(messages) :
                                           m.group_id = handler[p].group}) :
                RespondRows(p, page)
  /\ UNCHANGED <<groups, groups_id_seq, group_members, messages, authvars>>

\* GetGroupMembersHandler: FROM group_members gm ... WHERE gm.group_id = $1
GroupMembersQuery(p) ==
  /\ handler[p].op = "GetGroupMembers" /\ handler[p].pc = "query"
  /\ \E err \in BOOLEAN :
       IF err
         THEN Respond(p, 500, "Failed to retrieve group members")
         ELSE RespondRows(p, {r \in group_members : r.group_id = handler[p].group})
  /\ UNCHANGED <<groups, groups_id_seq, group_members, messages, authvars>>

\* ---------------------------------------------------------------- Next
\* the steps of a goroutine inside the registry
Registry(p) ==
  \/ RLock(p)
  \/ Lookup(p)
  \/ RUnlock(p)
  \/ Lock(p)
  \/ Locked(p)

\* The registry under concurrent callers: every request goroutine calls Add
\* and IsBlacklisted with any arguments, beside the sweeper and the clock.
Next ==
  \/ Tick
  \/ SweepTick
  \/ \E p \in Procs : CallAdd(p)
  \/ \E p \in Procs : CallIsBlacklisted(p)
  \/ \E p \in Threads : RLock(p)
  \/ \E p \in Threads : Lookup(p)
  \/ \E p \in Threads : RUnlock(p)
  \/ \E p \in Threads : Lock(p)
  \/ \E p \in Threads : Locked(p)

Spec == Init /\ [][Next]_vars

\* The scheduler runs every goroutine that can take a step, and a writer or
\* reader that keeps finding the mutex free gets it (sync.Mutex hands the
\* lock over in starvation mode).
Fairness == \A p \in Threads : SF_vars(Registry(p))

FairSpec == Spec /\ Fairness

\* The registry as in Spec, with the history of completed Add calls.
HistoryNext ==
  \/ Tick
  \/ SweepTick
  \/ \E p \in Procs : CallAdd(p)
  \/ \E p \in Procs : CallIsBlacklisted(p)
  \/ \E p \in Threads : RLock(p)
  \/ \E p \in Threads : Lookup(p)
  \/ \E p \in Threads : RUnlock(p)
  \/ \E p \in Threads : Lock(p)
  \/ \E p \in Threads : LockedRecorded(p)

HistorySpec == Init /\ [][HistoryNext]_vars

\* the one client of the specifications that serve one request at a time
Client == CHOOSE p \in Procs : \A q \in Procs : p <= q

\* The gate: one client sends protected requests and logout requests with
\* any token, and calls the registry with any arguments in between, beside
\* the sweeper and the clock.
GateNext ==
  \/ Tick
  \/ SweepTick
  \/ CallAdd(Client)
  \/ CallIsBlacklisted(Client)
  \/ CallGate(Client)
  \/ CallLogout(Client)
  \/ GateFinish(Client)
  \/ \E p \in Threads : RLock(p)
  \/ \E p \in Threads : Lookup(p)
  \/ \E p \in Threads : RUnlock(p)
  \/ \E p \in Threads : Lock(p)
  \/ \E p \in Threads : Locked(p)

GateSpec == Init /\ [][GateNext]_vars

\* Login: one client logs in, and presents the tokens it was given to the
\* gate and to logout.
AuthNext ==
  \/ Tick
  \/ CallLogin(Client)
  \/ CallLogoutIssued(Client)
  \/ CallGateIssued(Client)

AuthSpec == Init /\ [][AuthNext]_vars

\* Rotation: concurrent rotation requests beside the sweeper and the clock.
RotationNext ==
  \/ Tick
  \/ SweepTick
  \/ \E p \in Procs : CallRefresh(p)
  \/ \E p \in Procs : RefreshIssue(p)
  \/ \E p \in Procs : RefreshRespond(p)
  \/ \E p \in Threads : RLock(p)
  \/ \E p \in Threads : Lookup(p)
  \/ \E p \in Threads : RUnlock(p)
  \/ \E p \in Threads : Lock(p)
  \/ \E p \in Threads : Locked(p)

RotationSpec == Init /\ [][RotationNext]_vars

\* The registry as in Spec, where one id is never passed to Add.
FreshNext ==
  \/ Tick
  \/ SweepTick
  \/ \E p \in Procs : CallAddKnown(p)
  \/ \E p \in Procs : CallIsBlacklisted(p)
  \/ \E p \in Threads : RLock(p)
  \/ \E p \in Threads : Lookup(p)
  \/ \E p \in Threads : RUnlock(p)
  \/ \E p \in Threads : Lock(p)
  \/ \E p \in Threads : Locked(p)

FreshSpec == Init /\ [][FreshNext]_vars

\* The process before the blacklist exists: nothing constructed, no sweep
\* goroutine running.
OnceInit ==
  /\ now = 0
  /\ secret = "s"
  /\ blacklist = <<>>
  /\ readers = {}
  /\ wlock = NoProc
  /\ req = [p \in Threads |-> Idle]
  /\ issued = <<>>
  /\ revokedUntil = [id \in Ids |-> -1]
  /\ global = Unconstructed
  /\ NoDb

\* Construction: goroutines race through GetTokenBlacklist, any of them the
\* first caller, while the sweep goroutine, once started, runs its passes.
OnceNext ==
  \/ Tick
  \/ SweepTick
  \/ Lock(Sweeper)
  \/ Locked(Sweeper)
  \/ \E p \in Procs : CallGet(p)
  \/ \E p \in Procs : OnceLoad(p)
  \/ \E p \in Procs : OnceLock(p)
  \/ \E p \in Procs : OnceDoSlow(p)
  \/ \E p \in Procs : GetReturn(p)

OnceSpec == OnceInit /\ [][OnceNext]_vars

\* The process started with or without JWT_SECRET in its environment.
ConfigInit ==
  /\ now = 0
  /\ secret \in {"", "s"}
  /\ blacklist = <<>>
  /\ readers = {}
  /\ wlock = NoProc
  /\ req = [p \in Threads |-> IF p = Sweeper THEN SweeperIdle ELSE Idle]
  /\ issued = <<>>
  /\ revokedUntil = [id \in Ids |-> -1]
  /\ global = Constructed
  /\ NoDb

\* Configuration: one client logs in and sends protected requests, with the
\* tokens it was given and with any other token.
ConfigNext ==
  \/ Tick
  \/ CallLogin(Client)
  \/ CallGateIssued(Client)
  \/ CallGate(Client)
  \/ GateFinish(Client)
  \/ RLock(Client)
  \/ Lookup(Client)
  \/ RUnlock(Client)

ConfigSpec == ConfigInit /\ [][ConfigNext]_vars

\* Groups: one client creates groups and adds members, one request after
\* the other, every query of a handler a step that can fail.
GroupNext ==
  \/ CallCreateGroup(Client)
  \/ CreateBegin(Client)
  \/ CreateInsertGroup(Client)
  \/ CreateInsertCreator(Client)
  \/ CreateCommit(Client)
  \/ CallAddMember(Client)
  \/ AddCheckAdmin(Client)
  \/ AddCheckUser(Client)
  \/ AddCheckMember(Client)
  \/ AddCheckCount(Client)
  \/ AddCheckAdminCount(Client)
  \/ AddInsert(Client)

GroupSpec == Init /\ [][GroupNext]_vars

\* the group of the specifications that start with a group
FirstGroup == CHOOSE g \in GroupIds : \A h \in GroupIds : g <= h

\* the creator of that group
Creator == CHOOSE u \in Actors : \A v \in Actors : u <= v

\* users with a row in users who are in no group
Newcomers == MaxMembers..(MaxMembers + 2)

\* A group one short of the member limit: its creator has created it and
\* added the users up to MaxMembers - 1 as regular members.
NearlyFullInit ==
  /\ now = 0
  /\ secret = "s"
  /\ blacklist = <<>>
  /\ readers = {}
  /\ wlock = NoProc
  /\ req = [p \in Threads |-> IF p = Sweeper THEN SweeperIdle ELSE Idle]
  /\ issued = <<>>
  /\ revokedUntil = [id \in Ids |-> -1]
  /\ global = Constructed
  /\ groups = [g \in {FirstGroup} |-> Creator]
  /\ groups_id_seq = FirstGroup
  /\ group_members = {MemberRow(FirstGroup, u, u = Creator) : u \in 1..(MaxMembers - 1)}
  /\ messages = <<>>
  /\ handler = [p \in Procs |-> HIdle]

\* the admin and a regular member ask to add users who are in no group
CallAddNewcomer(p) ==
  \E u \in Actors, m \in Newcomers, a \in BOOLEAN :
    AddMemberRequest(p, u, FirstGroup, m, a, TRUE)

\* Limits: concurrent add-member requests for a group that is nearly full.
LimitNext ==
  \/ \E p \in Procs : CallAddNewcomer(p)
  \/ \E p \in Procs : AddCheckAdmin(p)
  \/ \E p \in Procs : AddCheckUser(p)
  \/ \E p \in Procs : AddCheckMember(p)
  \/ \E p \in Procs : AddCheckCount(p)
  \/ \E p \in Procs : AddCheckAdminCount(p)
  \/ \E p \in Procs : AddInsert(p)

LimitSpec == NearlyFullInit /\ [][LimitNext]_vars

\* A group as CreateGroupHandler leaves it: its creator is its only member.
NewGroupInit ==
  /\ now = 0
  /\ secret = "s"
  /\ blacklist = <<>>
  /\ readers = {}
  /\ wlock = NoProc
  /\ req = [p \in Threads |-> IF p = Sweeper THEN SweeperIdle ELSE Idle]
  /\ issued = <<>>
  /\ revokedUntil = [id \in Ids |-> -1]
  /\ global = Constructed
  /\ groups = [g \in {FirstGroup} |-> Creator]
  /\ groups_id_seq = FirstGroup
  /\ group_members = {MemberRow(FirstGroup, Creator, TRUE)}
  /\ messages = <<>>
  /\ handler = [p \in Procs |-> HIdle]

\* Messaging: one client sends direct and group messages as any user and
\* reads the group's messages and members, one request after the other.
MessageNext ==
  \/ CallSend(Client)
  \/ DmCheckReceiver(Client)
  \/ DmInsert(Client)
  \/ GmCheckGroup(Client)
  \/ GmCheckMember(Client)
  \/ GmCheckCount(Client)
  \/ GmCheckAdmins(Client)
  \/ GmInsert(Client)
  \/ CallGroupRead(Client)
  \/ GroupReadCheck(Client)
  \/ GroupMessagesQuery(Client)
  \/ GroupMembersQuery(Client)

MessageSpec == NewGroupInit /\ [][MessageNext]_vars

\* the users send direct messages to one another, one page and one more
CallSendDirect(p) ==
  /\ Len(messages) <= PageSize
  /\ \E u \in Actors, r \in Actors : SendRequest(p, u, r, Null, TRUE)

\* Conversations: one client sends direct messages as any user and reads the
\* conversations, one request after the other.
ConversationNext ==
  \/ CallSendDirect(Client)
  \/ DmCheckReceiver(Client)
  \/ DmInsert(Client)
  \/ CallConversation(Client)
  \/ ConversationQuery(Client)

ConversationSpec == Init /\ [][ConversationNext]_vars

\* ================================================================ claims

\* an entry that revokes id at time t: present and not yet expired
Revoked(m, id, t) == Has(m, id) /\ ~After(t, m[id])

\* p's request has just been answered by the gate in this step
GateAnswers(p) == req'[p].op = "Gate" /\ req'[p].pc = "done" /\ req'[p] # req[p]

\* p sends a protected request in this step
GateArrives(p) == Free(p) /\ req'[p].op = "Gate" /\ req'[p] # req[p]

\* C1: the gate accepts a presented token if and only if its signature is
\* valid, the clock is before its expiry, its kind is access and its id is
\* not revoked, each condition read when the gate checks it.  Stated for the
\* tokens that carry an id and a user and are not presented before an iat or
\* nbf of theirs: such a token passes the checks made
\* before the registry exactly when it is signed with the secret, unexpired
\* (now < exp) and of kind access; the lookup reports exactly the revoked
\* ids; and the token is accepted exactly when the lookup said not revoked.
C1_GateAcceptsIff ==
  [][\A p \in Procs :
       /\ ( /\ GateArrives(p)
            /\ req'[p].hdr = "bearer"
            /\ req'[p].tok.jti # "none"
            /\ req'[p].tok.uid # "none"
            /\ now >= req'[p].tok.nbf )
          => ( (req'[p].pc = "rlock")
               <=> ( /\ secret # ""
                     /\ req'[p].tok.key = secret
                     /\ now < req'[p].tok.exp
                     /\ req'[p].tok.typ = "access" ) )
       /\ (req[p].op = "Gate" /\ req[p].pc = "read" /\ req'[p].pc # "read")
          => ((req'[p].ret = "true") <=> Revoked(blacklist, req[p].id, now))
       /\ (req[p].op = "Gate" /\ req[p].pc = "ret" /\ GateAnswers(p) /\ req[p].tok.uid # "none")
          => (req'[p].resp.next <=> req[p].ret = "false")
  ]_vars

\* C2: a caller of IsBlacklisted has released its read lock before it
\* requests the write lock for the delete: no goroutine asks for, or waits
\* for, the write lock while it is itself a reader.
C2_ReadLockReleasedBeforeWriteLock ==
  \A p \in Threads :
    req[p].pc \in {"lock", "lockwait", "evictlock", "evictwait"} => p \notin readers

\* C3: IsBlacklisted(id) that finds id present with an expiry in the past
\* returns false with the entry deleted: the call that has taken the eviction
\* path eventually stands after its delete, the result false and id no longer
\* a key of the map, and eventually is back with its caller.
C3_EvictingLookupReturns ==
  \A p \in Procs :
    /\ (req[p].op = "IsBlacklisted" /\ req[p].pc = "evictlock")
         ~> ( /\ req[p].pc = "runlock"
              /\ req[p].ret = "false"
              /\ ~Has(blacklist, req[p].id) )
    /\ (req[p].op = "IsBlacklisted" /\ req[p].pc = "evictlock")
         ~> (req[p].pc = "idle")

\* C4: once an id has been revoked with expiry exp (an Add(id, exp) has
\* completed), every IsBlacklisted(id) that reads the map at a time not
\* after exp returns true.
C4_RevokedUntilExpiry ==
  [][\A p \in Procs :
       ( /\ req[p].op = "IsBlacklisted"
         /\ req[p].pc = "read"
         /\ req'[p].pc # "read"
         /\ now <= revokedUntil[req[p].id] )
       => req'[p].ret = "true"
  ]_vars

\* a rotation request that handed back a new access token
Rotated(p) == req[p].op = "Refresh" /\ req[p].pc = "done" /\ req[p].resp.status = 200

\* C5: of the rotation requests presenting one refresh token at most one
\* succeeds, and the token's id is in the registry (until its expiry) from
\* the moment a new access token is handed back.
C5_RotationSingleUse ==
  /\ \A p, q \in Procs : (p # q /\ Rotated(p) /\ Rotated(q)) => req[p].tok # req[q].tok
  /\ \A p \in Procs :
       (Rotated(p) /\ ~After(now, req[p].tok.exp)) => Has(blacklist, req[p].tok.jti)

\* C6: after a logout request presenting a valid access token has completed,
\* the token's id is in the revocation registry (while the token is unexpired).
C6_LogoutRevokes ==
  \A p \in Procs :
    ( /\ req[p].op = "Logout"
      /\ req[p].pc = "done"
      /\ GatePasses(req[p].hdr, req[p].tok, now, secret) )
    => Has(blacklist, req[p].tok.jti)

\* C7: a successful login has issued one token of kind access and one of
\* kind refresh, with distinct ids.
C7_LoginIssuesAccessAndRefresh ==
  \A p \in Procs :
    (req[p].op = "Login" /\ req[p].pc = "done" /\ req[p].resp.status = 200)
    => \E i, j \in 1..Len(issued) :
         /\ issued[i].typ = "access"
         /\ issued[j].typ = "refresh"
         /\ issued[i].jti # "none"
         /\ issued[j].jti # "none"
         /\ issued[i].jti # issued[j].jti

\* C8: the token a successful login returned, presented to the gate before
\* its expiry and not revoked, is accepted.
C8_LoginTokenAccepted ==
  \A p \in Procs :
    ( /\ req[p].op = "Gate"
      /\ req[p].pc = "done"
      /\ req[p].tok \in IssuedTokens
      /\ now < req[p].tok.exp )
    => req[p].resp.next

\* C9: every issued token carries a unique identifier, and no two issued
\* tokens carry the same one.
C9_IssuedIdsDistinct ==
  /\ \A i \in 1..Len(issued) : issued[i].jti # "none"
  /\ \A i, j \in 1..Len(issued) : i # j => issued[i].jti # issued[j].jti

\* C10: revocation is idempotent: the critical section of an Add(id, exp)
\* that runs when the map already holds id with expiry exp, as a previous
\* Add(id, exp) left it, leaves the map as it is, and the call returns.
C10_AddIdempotent ==
  [][\A p \in Procs :
       ( /\ req[p].op = "Add"
         /\ req[p].pc = "lockwait"
         /\ req'[p].pc # "lockwait"
         /\ Has(blacklist, req[p].id)
         /\ blacklist[req[p].id] = req[p].exp )
       => (blacklist' = blacklist /\ req'[p] = Idle)
  ]_vars

\* a second Add(id, exp) holds the write lock over a map in which a first
\* Add(id, exp) has stored the entry
C10_Witness ==
  \E p \in Procs :
    /\ req[p].op = "Add"
    /\ req[p].pc = "lockwait"
    /\ wlock = p
    /\ readers = {}
    /\ Has(blacklist, req[p].id)
    /\ blacklist[req[p].id] = req[p].exp

\* C11: a revocation entry is never updated once created: the critical
\* section of an Add(id, e2) that runs when id is already present with stored
\* expiry e1 leaves the map as it is, the stored expiry still e1.
C11_AddKeepsStoredExpiry ==
  [][\A p \in Procs :
       ( /\ req[p].op = "Add"
         /\ req[p].pc = "lockwait"
         /\ req'[p].pc # "lockwait"
         /\ Has(blacklist, req[p].id) )
       => (blacklist' = blacklist)
  ]_vars

\* C12: Add is safe to call concurrently with every other registry
\* operation: each Add call that has been made eventually returns, and when
\* it returns the id is present in the map.
C12_AddReturnsWithIdPresent ==
  /\ \A p \in Procs :
       (req[p].op = "Add" /\ req[p].pc = "lock") ~> (req[p].pc = "idle")
  /\ [][\A p \in Procs :
          (req[p].op = "Add" /\ req[p].pc = "lockwait" /\ req'[p].pc = "idle")
          => Has(blacklist', req[p].id)
     ]_vars

\* C13: IsBlacklisted(id) for an id that was never passed to Add returns
\* false and leaves the registry map unchanged: no step of the call changes
\* the map, the call takes no eviction path, and the value it fixes is false.
C13_NeverAddedNotRevoked ==
  [][\A p \in Procs :
       ( /\ req[p].op = "IsBlacklisted"
         /\ req[p].id = Fresh
         /\ req'[p] # req[p] )
       => ( /\ blacklist' = blacklist
            /\ req'[p].pc # "evictlock"
            /\ (req[p].pc = "read" => (req'[p].ret = "false" /\ req'[p].pc = "runlock")) )
  ]_vars

\* a lookup of the id never added has fixed its result while the map holds
\* another id, whose entry has expired
C13_Witness ==
  \E p \in Procs :
    /\ req[p].op = "IsBlacklisted"
    /\ req[p].id = Fresh
    /\ req[p].pc = "runlock"
    /\ req[p].ret = "false"
    /\ \E id \in DOMAIN blacklist : After(now, blacklist[id])

\* some goroutine is inside IsBlacklisted(id)
LookedUp(id) == \E p \in Procs : req[p].op = "IsBlacklisted" /\ req[p].id = id

\* C14: an entry whose expiry has passed is removed by the periodic sweep
\* without any lookup of it: once a sweep tick has fired with the entry
\* expired, the entry eventually is gone from the map (or has been stored
\* anew with a later expiry), unless it is looked up; and when a pass
\* completes no entry whose expiry has passed is left in the map, so that a
\* registry holding only expired entries is empty after the pass.
C14_SweepRemovesExpired ==
  /\ \A id \in Ids :
       (req[Sweeper].pc = "lock" /\ Has(blacklist, id) /\ After(now, blacklist[id]))
         ~> (LookedUp(id) \/ ~Has(blacklist, id) \/ ~After(now, blacklist[id]))
  /\ [][(req[Sweeper].pc = "lockwait" /\ req'[Sweeper].pc = "wait")
          => \A id \in DOMAIN blacklist' : ~After(now, blacklist'[id])
     ]_vars

\* a call of GetTokenBlacklist by p has returned
Got(p) == req[p].op = "Get" /\ req[p].pc = "done"

\* C15: however many goroutines call GetTokenBlacklist concurrently, at most
\* one TokenBlacklist is constructed, with one sweep goroutine per instance,
\* exactly one once any call has got past Once.Do, and every call that has
\* returned has returned that one instance, which is not nil.
C15_SingleConstruction ==
  /\ global.built <= 1
  /\ global.sweepers = global.built
  /\ (global.built = 1) <=> (req[Sweeper] # Idle)
  /\ \A p \in Procs :
       /\ req[p].pc = "getret" => (global.built = 1 /\ global.instance = 1)
       /\ Got(p) => (global.got[p] # Nil /\ global.got[p] = global.instance)
  /\ \A p, q \in Procs : (Got(p) /\ Got(q)) => global.got[p] = global.got[q]

\* two goroutines raced as first callers: both found done unset on the fast
\* path; one has constructed and returned, the other holds the mutex of the
\* Once on the slow path after it
C15_Witness ==
  \E p, q \in Procs :
    /\ p # q
    /\ Got(p)
    /\ req[q].op = "Get"
    /\ req[q].pc = "oncedo"
    /\ global.done

\* the gate has answered p's request, which carried a token of kind refresh
\* signed with the secret
RefreshAtGate(p) ==
  /\ req[p].op = "Gate"
  /\ req[p].pc = "done"
  /\ req[p].hdr = "bearer"
  /\ req[p].tok.typ = "refresh"
  /\ req[p].tok.key = secret

\* C16 as stated: a refresh token presented to the gate is rejected for its
\* kind whatever else holds of it, expired or not, revoked or not.
C16_RefreshAlwaysWrongKind ==
  \A p \in Procs :
    RefreshAtGate(p) => req[p].resp = Reject("Invalid token type")

\* C16, amended: a refresh token that is signed with the secret and is
\* presented before its expiry and not before the iat and nbf it carries is
\* rejected for its kind, whether or not its id is revoked and whether or
\* not it carries an id or a user, and the registry is not consulted for it;
\* a refresh token that is badly signed, past its expiry or presented before
\* its iat or nbf is rejected by the earlier check as invalid or expired.
C16_RefreshWrongKindWhenParsed ==
  [][\A p \in Procs :
       ( /\ GateArrives(p)
         /\ req'[p].hdr = "bearer"
         /\ req'[p].tok.typ = "refresh" )
       => /\ ( /\ req'[p].tok.key = secret
               /\ now < req'[p].tok.exp
               /\ now >= req'[p].tok.nbf )
               => /\ req'[p].pc = "done"
                  /\ req'[p].resp = Reject("Invalid token type")
                  /\ readers' = readers
          /\ ( \/ req'[p].tok.key # secret
               \/ now > req'[p].tok.exp
               \/ now < req'[p].tok.nbf )
               => /\ req'[p].pc = "done"
                  /\ req'[p].resp = Reject("Invalid or expired token")
                  /\ readers' = readers
  ]_vars

\* the gate has rejected for its kind an unexpired refresh token, not
\* presented before its iat or nbf, whose id is revoked in the registry
C16_Witness ==
  \E p \in Procs :
    /\ RefreshAtGate(p)
    /\ now < req[p].tok.exp
    /\ now >= req[p].tok.nbf
    /\ req[p].tok.jti # "none"
    /\ Revoked(blacklist, req[p].tok.jti, now)
    /\ req[p].resp = Reject("Invalid token type")

\* the gate has answered p's request
GateDone(p) == req[p].op = "Gate" /\ req[p].pc = "done"

\* the request the gate answered passes every check of the gate, the lookup
\* having returned false
Acceptable(p) ==
  /\ req[p].hdr = "bearer"
  /\ req[p].tok.typ = "access"
  /\ req[p].tok.jti # "none"
  /\ req[p].tok.uid # "none"
  /\ req[p].tok.key = secret
  /\ req[p].resp.status = 0

\* C17: validation has no partial success: whenever the gate has written a
\* rejection, the request is aborted, user_id is not set and the downstream
\* handler is not invoked; and the downstream handler is invoked, with
\* user_id set, for no request that fails a check of the gate.
C17_NoPartialSuccess ==
  \A p \in Procs :
    GateDone(p) =>
      /\ (req[p].resp.status # 0 \/ ~Acceptable(p))
           => ( /\ req[p].resp.status = 401
                /\ req[p].resp.aborted
                /\ req[p].resp.user = "none"
                /\ ~req[p].resp.next )
      /\ (req[p].resp.next \/ req[p].resp.user # "none")
           => (Acceptable(p) /\ req[p].resp = Accept(req[p].tok.uid))

\* the gate has rejected, after the registry lookup, a token that carries a
\* user id: as revoked
C17_Witness ==
  \E p \in Procs :
    /\ GateDone(p)
    /\ req[p].tok.uid # "none"
    /\ req[p].resp = Reject("Token has been revoked")

\* C18: the response of the gate is the same, status and body, for the four
\* rejection reasons badly signed, expired, wrong kind and revoked: every
\* rejection of a token that carries an id and a user is the response a
\* badly signed token gets.
C18_RejectionsIndistinguishable ==
  \A p \in Procs :
    ( /\ GateDone(p)
      /\ req[p].hdr = "bearer"
      /\ req[p].tok.jti # "none"
      /\ req[p].tok.uid # "none"
      /\ req[p].resp.status # 0 )
    => req[p].resp = GateRejection("bearer", NoTok, now, secret)

\* C19: when JWT_SECRET is absent every signature operation fails: no login
\* succeeds or hands out a token, and the gate accepts no token.
C19_NoSecretNoSignature ==
  (secret = "") =>
    /\ issued = <<>>
    /\ \A p \in Procs :
         /\ (req[p].op = "Login" /\ req[p].pc = "done")
              => (req[p].resp.status # 200 /\ req[p].tok = NoTok)
         /\ GateDone(p) => (req[p].resp.status # 0 /\ ~req[p].resp.next)

\* C20: when the gate cannot validate a token because JWT_SECRET is absent,
\* the request ends in a server-side failure, not in the unauthorized outcome.
C20_NoSecretServerFailure ==
  \A p \in Procs :
    (GateDone(p) /\ req[p].hdr = "bearer" /\ secret = "")
    => (req[p].resp.status >= 500)

\* C21: a token whose expiry equals the current time counts as expired: an
\* access token signed with the secret and presented to the gate at the very
\* clock instant of its expiry is rejected as expired.
C21_ExpiryInstantRejected ==
  [][\A p \in Procs :
       ( /\ GateArrives(p)
         /\ req'[p].hdr = "bearer"
         /\ req'[p].tok.typ = "access"
         /\ req'[p].tok.key = secret
         /\ req'[p].tok.exp = now )
       => ( /\ req'[p].pc = "done"
            /\ req'[p].resp = Reject("Invalid or expired token") )
  ]_vars

\* C22: after any sequence and interleaving of create-group and add-member
\* requests, two concurrent add-member requests for one group included, no
\* group has more than 25 members.
C22_MemberLimit ==
  \A g \in DOMAIN groups : MemberCount(group_members, g) <= MaxMembers

\* C23: after any sequence and interleaving of create-group and add-member
\* requests, concurrent requests with is_admin = true included, no group has
\* more than 2 members with is_admin = true.
C23_AdminLimit ==
  \A g \in DOMAIN groups : AdminCount(group_members, g) <= MaxAdmins

\* p runs AddMemberToGroupHandler and takes a step
AddMemberActs(p) ==
  /\ handler[p].op = "AddMember" /\ handler[p].pc # "done"
  /\ handler'[p] # handler[p]

\* the requester of p's request has a membership row of its group that
\* says is_admin = true
RequesterIsAdmin(p) ==
  MemberRow(handler[p].group, handler[p].user, TRUE) \in group_members

\* C24: an add-member request (one whose body binds) inserts a membership
\* row only if the requester is a member of that group with is_admin = true
\* when the request checks it and when it inserts; for every other requester
\* the request is answered 403 Forbidden, gets no further, and group_members
\* is unchanged.
C24_OnlyAdminsAdd ==
  [][\A p \in Procs :
       /\ (AddMemberActs(p) /\ group_members' # group_members)
            => /\ RequesterIsAdmin(p)
               /\ handler[p].pc = "insert"
               /\ group_members' = group_members \cup
                    {MemberRow(handler[p].group, handler[p].member, handler[p].admin)}
       /\ (AddMemberActs(p) /\ handler[p].pc = "checkadmin" /\ ~RequesterIsAdmin(p))
            => /\ handler'[p].pc = "done"
               /\ handler'[p].status = 403
               /\ group_members' = group_members
       /\ (handler'[p].op = "AddMember" /\ handler'[p].pc \notin {"checkadmin", "done"})
            => MemberRow(handler'[p].group, handler'[p].user, TRUE) \in group_members'
  ]_vars

\* a regular member, added by an admin's add-member request, has asked to
\* add a member and was answered 403
C24_Witness ==
  \E p \in Procs :
    /\ handler[p].op = "AddMember" /\ handler[p].pc = "done"
    /\ handler[p].status = 403
    /\ handler[p].body = "Only admins can add members to the group"
    /\ \E r \in group_members : ~r.is_admin

\* C30: group creation is atomic and makes the creator an admin: at every
\* point of every create-group request, failed or not, a group id either has
\* its group row and the membership row of its creator with is_admin = true,
\* or it has no group row and no membership row.
C30_CreateAtomic ==
  \A g \in GroupIds :
    \/ /\ g \in DOMAIN groups
       /\ MemberRow(g, groups[g], TRUE) \in group_members
    \/ /\ g \notin DOMAIN groups
       /\ \A r \in group_members : r.group_id # g

\* a create-group request has failed after its INSERT INTO groups ran
C30_Witness ==
  \E p \in Procs :
    /\ handler[p].op = "CreateGroup" /\ handler[p].pc = "done"
    /\ handler[p].status = 500
    /\ groups_id_seq > 0
    /\ groups_id_seq \notin DOMAIN groups

\* p runs SendMessageHandler and takes a step
SendActs(p) ==
  /\ handler[p].op = "SendMessage" /\ handler[p].pc # "done"
  /\ handler'[p] # handler[p]

\* p's request is answered in this step with a rejection, and no message is
\* persisted
SendRejected(p) ==
  /\ handler'[p].pc = "done"
  /\ handler'[p].status \in {400, 500}
  /\ messages' = messages

\* the sender of p's group message may send to its group: the group has a
\* row in groups and the sender a row in group_members
MaySendToGroup(p) ==
  /\ handler[p].group \in DOMAIN groups
  /\ \E r \in group_members :
       r.group_id = handler[p].group /\ r.member_id = handler[p].user

\* C25: a group message is persisted only if the group exists and the sender
\* is a member of it at the time of sending; otherwise the send is rejected
\* (no request of a non-member gets past the membership check) and the
\* messages table is unchanged.
C25_GroupMessageByMember ==
  [][\A p \in Procs :
       /\ (SendActs(p) /\ handler[p].group # Null /\ messages' # messages)
            => /\ MaySendToGroup(p)
               /\ messages' = Append(messages,
                    MessageRow(handler[p].user, Null, handler[p].group, Len(messages) + 1))
       /\ (SendActs(p) /\ handler[p].pc = "gmgroup" /\ handler[p].group \notin DOMAIN groups)
            => SendRejected(p)
       /\ (SendActs(p) /\ handler[p].pc = "gmmember" /\ ~MaySendToGroup(p))
            => SendRejected(p)
       /\ (SendActs(p) /\ handler[p].pc \in {"gmcount", "gmadmins", "gminsert"})
            => MaySendToGroup(p)
  ]_vars

\* a non-member's group message has been rejected for the membership, in a
\* group to which a member's message was persisted
C25_Witness ==
  \E p \in Procs :
    /\ handler[p].op = "SendMessage" /\ handler[p].pc = "done"
    /\ handler[p].status = 500
    /\ handler[p].body = "You are not a member of this group"
    /\ \E m \in Rows(messages) : m.group_id = FirstGroup

\* C26: no direct message is persisted whose sender equals its receiver or
\* whose receiver is no user; such a request is rejected when the receiver
\* is checked and the messages table is unchanged.
C26_NoSelfOrUnknownReceiver ==
  [][/\ \A m \in Rows(messages') :
          m.receiver_id # Null => (m.receiver_id \in Users /\ m.receiver_id # m.sender_id)
     /\ \A p \in Procs :
          /\ ( /\ SendActs(p) /\ handler[p].pc = "dmreceiver"
               /\ (handler[p].receiver = handler[p].user \/ handler[p].receiver \notin Users) )
               => SendRejected(p)
          /\ (SendActs(p) /\ handler[p].pc = "dminsert")
               => (handler[p].receiver \in Users /\ handler[p].receiver # handler[p].user)
  ]_vars

\* a message to oneself has been rejected, beside a persisted direct message
C26_Witness ==
  \E p \in Procs :
    /\ handler[p].op = "SendMessage" /\ handler[p].pc = "done"
    /\ handler[p].status = 500
    /\ handler[p].body = "Cannot send message to yourself"
    /\ \E m \in Rows(messages) : m.receiver_id # Null

\* C27: every persisted message has exactly one of receiver_id and group_id
\* set; a send request carrying both or neither is answered 400 Bad Request
\* when it arrives (only a request with exactly one of them goes on to the
\* queries) and nothing is persisted.
C27_ReceiverXorGroup ==
  [][/\ \A m \in Rows(messages') : (m.receiver_id = Null) # (m.group_id = Null)
     /\ \A p \in Procs :
          /\ (handler'[p].op = "SendMessage" /\ handler'[p].pc # "done")
               => (handler'[p].receiver = Null) # (handler'[p].group = Null)
          /\ (HFree(p) /\ handler'[p] # handler[p] /\ handler'[p].op = "SendMessage"
                /\ handler'[p].pc = "done")
               => (handler'[p].status = 400 /\ messages' = messages)
  ]_vars

\* a request with both or with neither has been answered 400, beside a
\* persisted message
C27_Witness ==
  \E p \in Procs :
    /\ handler[p].pc = "done"
    /\ handler[p].status = 400
    /\ handler[p].body = "Either receiver_id or group_id must be provided, but not both"
    /\ messages # <<>>

\* C28: GET /api/conversation/:user_id, when the two users have exchanged
\* more than 10 direct messages, returns the 10 with the latest created_at.
C28_ConversationLatest ==
  [][\A p \in Procs :
       ( /\ handler[p].op = "GetConversation" /\ handler[p].pc = "query"
         /\ handler'[p].pc = "done" /\ handler'[p].status = 200
         /\ Cardinality(Conversation(messages, handler[p].user, handler[p].receiver)) > PageSize )
       => handler'[p].rows =
            {m \in Conversation(messages, handler[p].user, handler[p].receiver) :
               Cardinality({n \in Conversation(messages, handler[p].user, handler[p].receiver) :
                              n.created_at > m.created_at}) < PageSize}
  ]_vars

\* p runs one of the two group read handlers and takes a step
GroupReadActs(p) ==
  /\ handler[p].op \in {"GetGroupMessages", "GetGroupMembers"}
  /\ handler[p].pc # "done"
  /\ handler'[p] # handler[p]

\* the user of p's request has a membership row of the group it names
ReaderHasRow(p) ==
  \E r \in group_members :
    r.group_id = handler[p].group /\ r.member_id = handler[p].user

\* C29: a user who is not a member of a group never receives its messages or
\* its member list from the group endpoints: the request is answered 403
\* Forbidden (500 when the membership query itself fails), gets no further,
\* and returns no rows.
C29_NonMemberReadsNothing ==
  [][\A p \in Procs :
       /\ (GroupReadActs(p) /\ ~ReaderHasRow(p))
            => /\ handler[p].pc = "checkmember"
               /\ handler'[p].pc = "done"
               /\ handler'[p].rows = {}
               /\ \/ handler'[p].status = 403
                  \/ /\ handler'[p].status = 500
                     /\ handler'[p].body = "Failed to verify group membership"
       /\ (GroupReadActs(p) /\ handler'[p].rows # {}) => ReaderHasRow(p)
  ]_vars

\* a non-member has asked for the messages of a group that has messages,
\* and was answered 403
C29_Witness ==
  \E p \in Procs :
    /\ handler[p].op = "GetGroupMessages" /\ handler[p].pc = "done"
    /\ handler[p].status = 403
    /\ \E m \in Rows(messages) : m.group_id = FirstGroup

\* C31: the gate applies its checks in the order signature/structure,
\* expiry (the clock past exp, or before iat or nbf), kind, revocation, and
\* the first failing check decides the rejection: a badly signed, expired or
\* not yet valid token is rejected as invalid or expired whatever its kind;
\* a verified token of the wrong kind is
\* rejected for its kind even when its id is revoked; a token that fails one
\* of these checks is answered when it arrives, without a call of
\* IsBlacklisted; and the rejection as revoked is only ever written after the
\* lookup, for a verified token of kind access.
C31_ChecksInOrder ==
  [][\A p \in Procs :
       /\ (GateArrives(p) /\ req'[p].hdr = "bearer")
            => /\ ( \/ req'[p].tok.key # secret
                    \/ now > req'[p].tok.exp
                    \/ now < req'[p].tok.nbf )
                    => /\ req'[p].pc = "done"
                       /\ req'[p].resp = Reject("Invalid or expired token")
                       /\ readers' = readers
               /\ ( /\ req'[p].tok.key = secret /\ now <= req'[p].tok.exp
                    /\ now >= req'[p].tok.nbf
                    /\ req'[p].tok.typ # "access" )
                    => /\ req'[p].pc = "done"
                       /\ req'[p].resp = Reject("Invalid token type")
                       /\ readers' = readers
               /\ req'[p].pc # "done"
                    => /\ req'[p].tok.key = secret /\ now <= req'[p].tok.exp
                       /\ now >= req'[p].tok.nbf
                       /\ req'[p].tok.typ = "access"
       /\ (GateAnswers(p) /\ req'[p].resp = Reject("Token has been revoked"))
            => /\ req[p].op = "Gate" /\ req[p].pc = "ret" /\ req[p].ret = "true"
               /\ req[p].tok.key = secret
               /\ req[p].tok.typ = "access"
  ]_vars

\* the gate has rejected for its kind, without a lookup, a verified token
\* that is not of kind access and whose id is revoked in the registry
C31_Witness ==
  \E p \in Procs :
    /\ GateDone(p)
    /\ req[p].hdr = "bearer"
    /\ req[p].tok.key = secret
    /\ now <= req[p].tok.exp
    /\ req[p].tok.typ # "access"
    /\ req[p].tok.jti # "none"
    /\ Revoked(blacklist, req[p].tok.jti, now)
    /\ req[p].resp = Reject("Invalid token type")

\* a step of a sweep pass or of a call of IsBlacklisted
SweepOrLookupActs ==
  \/ req[Sweeper].op = "cleanup" /\ req'[Sweeper] # req[Sweeper]
  \/ \E p \in Procs : req[p].op = "IsBlacklisted" /\ req'[p] # req[p]

\* C32: neither the lazy eviction of IsBlacklisted nor a sweep pass removes
\* an entry whose stored expiry has not passed, whatever Add calls run beside
\* them: every step of a lookup and of a sweep leaves every entry the clock
\* is not after in the map, with its expiry.
C32_UnexpiredEntriesKept ==
  [][SweepOrLookupActs
       => \A id \in DOMAIN blacklist :
            ~After(now, blacklist[id])
              => (id \in DOMAIN blacklist' /\ blacklist'[id] = blacklist[id])
  ]_vars

\* a sweep pass holds the write lock over a map with an entry that has
\* expired and an entry that has not, while an Add waits for the lock
C32_Witness ==
  /\ req[Sweeper].op = "cleanup"
  /\ req[Sweeper].pc = "lockwait"
  /\ wlock = Sweeper
  /\ readers = {}
  /\ \E id \in DOMAIN blacklist : After(now, blacklist[id])
  /\ \E id \in DOMAIN blacklist : ~After(now, blacklist[id])
  /\ \E p \in Procs : req[p].op = "Add" /\ req[p].pc = "lock"

\* The registry with a shutdown: request goroutines call Add, the sweeper
\* runs its passes, and some caller of the instance calls Stop() once.
StopNext ==
  \/ Tick
  \/ SweepTick
  \/ CallStop
  \/ \E p \in Procs : CallAdd(p)
  \/ \E p \in Threads : Lock(p)
  \/ \E p \in Threads : Locked(p)

StopSpec == Init /\ [][StopNext]_vars

\* the sweeper goroutine completes the critical section of cleanup()
SweepPassActs ==
  /\ req[Sweeper].op = "cleanup" /\ req[Sweeper].pc = "lockwait"
  /\ req'[Sweeper] # req[Sweeper]

\* C33: once Stop() has returned the periodic sweep is halted: no step of a
\* cleanup pass taken afterwards modifies the map.
C33_NoSweepAfterStop ==
  [][(global.stopped /\ SweepPassActs) => blacklist' = blacklist]_vars

\* C34: the gate never accepts a token that carries no string jti claim or
\* no user_id claim, whatever its signature, expiry and kind: such a request
\* is answered 401 and aborted, user_id is not set and the downstream
\* handler is not invoked; hence every token the gate lets through has an id
\* by which it can be revoked, and a user.
C34_NoAcceptWithoutIdOrUser ==
  \A p \in Procs :
    GateDone(p) =>
      /\ (req[p].tok.jti = "none" \/ req[p].tok.uid = "none")
           => /\ req[p].resp.status = 401
              /\ req[p].resp.aborted
              /\ ~req[p].resp.next
              /\ req[p].resp.user = "none"
      /\ req[p].resp.next
           => /\ req[p].tok.jti \in Ids
              /\ req[p].tok.uid # "none"
              /\ req[p].resp.user = req[p].tok.uid

\* a token with the service's signature, not expired, of kind access and
\* with an id that is not revoked, but without user_id, has been rejected
\* after the registry lookup for the missing claim
C34_Witness ==
  \E p \in Procs :
    /\ GateDone(p)
    /\ req[p].hdr = "bearer"
    /\ req[p].tok.key = secret /\ now <= req[p].tok.exp
    /\ req[p].tok.typ = "access"
    /\ req[p].tok.jti \in Ids
    /\ ~Revoked(blacklist, req[p].tok.jti, now)
    /\ req[p].tok.uid = "none"
    /\ req[p].resp = Reject("Invalid token: missing user_id claim")

\* a second request goroutine beside the client
Rival == CHOOSE p \in Procs : p # Client

\* the two goroutines whose add-member requests run concurrently
Requesters == {Client, Rival}

\* the creator of the first group, its admin, asks to add any user, a
\* member of the group or not, as admin or as regular member
CallAddByCreator(p) ==
  /\ FirstGroup \in DOMAIN groups
  /\ \E m \in Actors, a \in BOOLEAN :
       AddMemberRequest(p, groups[FirstGroup], FirstGroup, m, a, TRUE)

\* Membership: the client creates groups and adds members while a second
\* request goroutine adds members too, the statements of the concurrent
\* handlers interleaved in any order and every one of them able to fail.
MemberNext ==
  \/ CallCreateGroup(Client)
  \/ CreateBegin(Client)
  \/ CreateInsertGroup(Client)
  \/ CreateInsertCreator(Client)
  \/ CreateCommit(Client)
  \/ \E p \in Requesters : CallAddByCreator(p)
  \/ \E p \in Requesters : AddCheckAdmin(p)
  \/ \E p \in Requesters : AddCheckUser(p)
  \/ \E p \in Requesters : AddCheckMember(p)
  \/ \E p \in Requesters : AddCheckCount(p)
  \/ \E p \in Requesters : AddCheckAdminCount(p)
  \/ \E p \in Requesters : AddInsert(p)

MemberSpec == Init /\ [][MemberNext]_vars

\* C35: no (group, member) pair ever has two rows in group_members,
\* whatever the sequence or interleaving of create-group and add-member
\* requests; and a step of an add-member request for a user who is already
\* a member of the group leaves group_members unchanged, the request, when
\* the step answers it, being rejected with an error status.
C35_NoDuplicateMembership ==
  [][ /\ \A r1, r2 \in group_members' :
           (r1.group_id = r2.group_id /\ r1.member_id = r2.member_id) => r1 = r2
      /\ \A p \in Procs :
           ( /\ AddMemberActs(p)
             /\ \E r \in group_members :
                  r.group_id = handler[p].group /\ r.member_id = handler[p].member )
           => /\ group_members' = group_members
              /\ handler'[p].pc = "done" => handler'[p].status >= 400
    ]_vars

\* a request has passed the membership check of its handler and stands
\* before its INSERT while a concurrent request has added the same user to
\* the same group with the other is_admin value
C35_Witness ==
  \E p \in Procs :
    /\ handler[p].op = "AddMember" /\ handler[p].pc = "insert"
    /\ MemberRow(handler[p].group, handler[p].member, ~handler[p].admin) \in group_members

====
